---- MODULE Spec2Model ----
(***************************************************************************)
(* Model of the Kol Zchut crawler (src/src/scraper/crawler.py): the crawl  *)
(* loop of crawl_and_save_articles with the page fetcher, the content and  *)
(* link extractors and the per-article JSON writer it calls.               *)
(***************************************************************************)
EXTENDS Integers, Sequences, FiniteSets, TLC

VARIABLES
    start_url,      \* argument of crawl_and_save_articles
    max_articles,   \* argument of crawl_and_save_articles
    visited_urls,   \* set of URLs (crawler.py:253)
    to_visit,       \* list of URLs, popped at the front (crawler.py:254)
    article_count,  \* crawler.py:255
    pc,             \* "running" inside the while loop, "completed" after line 290
    fetch_log,      \* the calls of get_page_content so far, each with the
                    \* article_count at the call and the seconds slept:
                    \* <<[url, ok, count, slept]>>
    save_log,       \* the calls of save_article_data so far: <<[filename, data, ok, url]>>
    files,          \* the files on disk: set of [name, data, complete]
    soup,           \* what lines 270-274 read of the page fetched last:
                    \* [heading, title_text, content] (crawler.py:264)
    new_links,      \* the links extracted from it (crawler.py:285)
    enqueued,       \* the URLs put into to_visit so far, each once, in the
                    \* order in which lines 254 and 288 first put them there
    \* the extractors of crawler.py called on their own
    ex_pc,          \* "idle", "ready", or the extractor that has returned
    ex_doc,         \* the parsed page handed to the extractor
    ex_ret,         \* what extract_article_content returned, and whether
                    \* lines 270-274 store an article for the page
    ex_links,       \* what extract_links_from_page returned
    \* the vector database module, src/src/api/utils/vector_db.py, and the
    \* query handler, src/src/api/query.py
    pinecone,       \* the module's `pc` is not None (vector_db.py:25-30)
    model,          \* `model` is not None (vector_db.py:33-38)
    index,          \* `index` is not None (vector_db.py:95)
    index_exists,   \* the service has an index named zchut-knowledge-base
    upserts,        \* the batches of vectors the service has accepted
    calls,          \* the calls made by the operation, in order
    api_pc,         \* "idle", "ready", or the operation that has returned
    api_arg,        \* the arguments of that operation; for a request, whether
                    \* the query of the index fails
    api_ret,        \* what it returned
    \* crawl_category_page (crawler.py:189-228) called on its own
    cat_pc,         \* "idle"; "calling" when the newest activation is about to
                    \* run; "returning" when an activation has just returned
                    \* to its caller; "returned" or "raised" at the end
    cat_site,       \* the category page served at each category URL
    cat_stack,      \* the activations, oldest first: [category_url, article_urls]
    cat_ret,        \* the list returned by the activation that returned last
    cat_requests    \* the URLs passed to get_page_content so far

crawlvars == <<start_url, max_articles, visited_urls, to_visit, article_count, pc,
               fetch_log, save_log, files, soup, new_links, enqueued>>
extractvars == <<ex_pc, ex_doc, ex_ret, ex_links>>
apivars == <<pinecone, model, index, index_exists, upserts, calls, api_pc, api_arg,
             api_ret>>
catvars == <<cat_pc, cat_site, cat_stack, cat_ret, cat_requests>>
othervars == <<extractvars, apivars, catvars>>
vars == <<crawlvars, othervars>>

-----------------------------------------------------------------------------
(* Program constants and bounds of the model *)

\* crawler.py:36  DELAY = 1
DELAY == 1

MaxLinks == 2       \* <a href> tags inside the content region of one page
MaxBudget == 2      \* largest max_articles tried

-----------------------------------------------------------------------------
(* URLs and hrefs.  A URL is origin (scheme and host) plus a root-relative *)
(* path /<lang>/<ns><name>; an href is absolute, root-relative or a pure   *)
(* fragment.                                                               *)

\* crawler.py:31  BASE_URL = "https://www.kolzchut.org.il"
BASE_URL ==
    [origin |-> "https://www.kolzchut.org.il", lang |-> "", ns |-> "", name |-> 0,
     frag |-> FALSE]

OtherOrigin == "https://other.example"

\* The pages /he/1 and /he/2 of the modelled site; with a seed of another
\* origin a crawl can fetch three URLs
Names == {1, 2}

Url(o, l, ns, n) == [origin |-> o, lang |-> l, ns |-> ns, name |-> n, frag |-> FALSE]

\* scheme and host of a URL
Origin(url) == url.origin

\* href="/<lang>/<ns><name>"
RootRel(l, ns, n) == [kind |-> "rootrel", origin |-> "", lang |-> l, ns |-> ns, name |-> n]
\* href="<origin>/<lang>/<ns><name>"
Absolute(o, l, ns, n) == [kind |-> "abs", origin |-> o, lang |-> l, ns |-> ns, name |-> n]
\* href="#top"
Fragment == [kind |-> "frag", origin |-> "", lang |-> "", ns |-> "", name |-> 0]

\* Variant: the test for the '/he/' prefix accepts every href that has a path
StartsWithHe_anyPath(href) == href.kind # "frag" /\ href.lang = "he"

\* str.startswith on an href, for the three prefixes the crawler tests
StartsWithHe(href) == href.kind = "rootrel" /\ href.lang = "he"
StartsWithHeNs(href, ns) == StartsWithHe(href) /\ href.ns = ns

\* urllib.parse.urljoin(base, href)
urljoin(base, href) ==
    CASE href.kind = "abs" ->
            [origin |-> href.origin, lang |-> href.lang, ns |-> href.ns,
             name |-> href.name, frag |-> FALSE]
      [] href.kind = "rootrel" ->
            [origin |-> base.origin, lang |-> href.lang, ns |-> href.ns,
             name |-> href.name, frag |-> FALSE]
      [] OTHER -> [base EXCEPT !.frag = TRUE]

\* The hrefs a page of the modelled sites may carry
HrefPool ==
    {RootRel("he", "", n) : n \in Names}
    \cup {Absolute(OtherOrigin, "he", "", 1)}

RECURSIVE SeqsUpTo(_, _)
SeqsUpTo(S, n) ==
    IF n = 0 THEN {<<>>}
    ELSE LET shorter == SeqsUpTo(S, n - 1)
         IN  shorter \cup {Append(s, x) : s \in shorter, x \in S}

-----------------------------------------------------------------------------
(* Text: a string is a sequence of one-character strings *)

Whitespace == {" ", "\n"}
Alnum == {"a", "b", "0", "1", "2", "3", "4", "5", "6", "7", "8", "9"}

RECURSIVE lstrip(_)
lstrip(s) == IF s # <<>> /\ Head(s) \in Whitespace THEN lstrip(Tail(s)) ELSE s

RECURSIVE rstrip(_)
rstrip(s) ==
    IF s # <<>> /\ s[Len(s)] \in Whitespace THEN rstrip(SubSeq(s, 1, Len(s) - 1)) ELSE s

\* str.strip()
strip(s) == rstrip(lstrip(s))

\* str(n) for n >= 0
Digit(d) == <<"0", "1", "2", "3", "4", "5", "6", "7", "8", "9">>[d + 1]
RECURSIVE Dec(_)
Dec(n) == IF n < 10 THEN <<Digit(n)>> ELSE Append(Dec(n \div 10), Digit(n % 10))

\* The heading texts of the modelled pages
TitlePool == {<<" ">>, <<" ", "a", "/">>}

-----------------------------------------------------------------------------
(* Documents: what BeautifulSoup finds in a fetched page *)

\* A parsed page
FullDoc(heading, title_text, content, links, elements, cats, lastmod, og_url) ==
    [heading |-> heading,          \* <h1 class="firstHeading"> present
     title_text |-> title_text,    \* its text
     content |-> content,          \* <div id="mw-content-text"> present
     links |-> links,              \* hrefs of the <a href> inside that div
     elements |-> elements,        \* the h2/h3/p/ul inside that div, in document
                                   \* order: [name, text, items]
     cats |-> cats,                \* link texts inside <div id="catlinks">
     lastmod |-> lastmod,          \* text of <li id="lastmod"> in <div id="footer">
     og_url |-> og_url,            \* content of <meta property="og:url">
     og_bare |-> FALSE,            \* that meta tag has no content attribute
     outer_links |-> <<>>]         \* hrefs of the <a href> outside the content div

\* A page that has only a heading, a content region and links
Doc(heading, title_text, content, links) ==
    FullDoc(heading, title_text, content, links, <<>>, <<>>, <<>>, <<>>)

\* The pages the modelled sites may serve
Docs ==
    {Doc(h, IF h THEN t ELSE <<>>, c, IF c THEN l ELSE <<>>) :
        h \in BOOLEAN, t \in TitlePool, c \in BOOLEAN,
        l \in SeqsUpTo(HrefPool, MaxLinks)}

-----------------------------------------------------------------------------
(* extract_article_content, crawler.py:66-150 *)

\* crawler.py:77-84
EmptyArticle ==
    [title |-> <<>>, summary |-> <<>>, sections |-> <<>>, categories |-> <<>>,
     last_updated |-> <<>>, source_url |-> <<>>]

RECURSIVE ListItems(_)
\* crawler.py:121-122: "• " + li.text.strip() + "\n" for each <li>
ListItems(items) ==
    IF items = <<>> THEN <<>>
    ELSE <<"*", " ">> \o strip(Head(items)) \o <<"\n">> \o ListItems(Tail(items))

RECURSIVE Sections(_, _, _)
\* crawler.py:103-127: the loop over the content elements; acc is `sections`,
\* cur is `current_section`
Sections(elements, acc, cur) ==
    IF elements = <<>>
    THEN IF strip(cur.content) # <<>> THEN Append(acc, cur) ELSE acc
    ELSE LET e == Head(elements)
         IN  IF e.name \in {"h2", "h3"}
             THEN Sections(Tail(elements),
                           IF strip(cur.content) # <<>> THEN Append(acc, cur) ELSE acc,
                           [title |-> strip(e.text), content |-> <<>>])
             ELSE IF e.name = "p"
             THEN Sections(Tail(elements), acc,
                           [cur EXCEPT !.content = @ \o strip(e.text) \o <<"\n", "\n">>])
             ELSE Sections(Tail(elements), acc,
                           [cur EXCEPT !.content = @ \o ListItems(e.items) \o <<"\n">>])

\* text of the first <p> of the content region, crawler.py:98-100
FirstPara(elements) ==
    LET ps == SelectSeq(elements, LAMBDA e : e.name = "p")
    IN  IF ps = <<>> THEN <<>> ELSE strip(Head(ps).text)

RECURSIVE StripAll(_)
\* crawler.py:134: cat.text.strip() for the links whose stripped text is non-empty
StripAll(texts) ==
    IF texts = <<>> THEN <<>>
    ELSE IF strip(Head(texts)) # <<>>
         THEN <<strip(Head(texts))>> \o StripAll(Tail(texts))
         ELSE StripAll(Tail(texts))

extract_article_content(doc) ==
    LET titled == [EmptyArticle EXCEPT
                     !.title = IF doc.heading THEN strip(doc.title_text) ELSE <<>>]
    IN  IF ~doc.content
        THEN titled                                            \* crawler.py:94-95
        ELSE [titled EXCEPT
                !.summary = FirstPara(doc.elements),
                !.sections = Sections(doc.elements, <<>>,
                                      [title |-> <<"M", "a", "i", "n">>, content |-> <<>>]),
                !.categories = StripAll(doc.cats),
                !.last_updated = strip(doc.lastmod),
                \* crawler.py:145-148: ['content'] of a bare meta tag raises
                \* KeyError, which is caught; source_url keeps its default
                !.source_url = IF doc.og_bare THEN <<>> ELSE doc.og_url]

\* Variant: line 145 stands outside the try block
extract_article_result_uncaught(doc) ==
    [raised |-> doc.content /\ doc.og_bare, none |-> FALSE,
     article_data |-> extract_article_content(doc)]

\* One call of extract_article_content: `raised` when an exception leaves the
\* function, `none` when it returns None; both return statements (lines 95
\* and 150) return the dict, and the except clause of line 147 catches
\* everything
extract_article_result(doc) ==
    [raised |-> FALSE, none |-> FALSE, article_data |-> extract_article_content(doc)]

-----------------------------------------------------------------------------
(* extract_links_from_page, crawler.py:152-187 *)

RECURSIVE ArticleLinks(_, _)
\* crawler.py:172-182: the loop over the <a href> of the content region
ArticleLinks(hrefs, base_url) ==
    IF hrefs = <<>> THEN <<>>
    ELSE LET href == Head(hrefs)
             rest == ArticleLinks(Tail(hrefs), base_url)
         IN  IF /\ StartsWithHe(href)
                /\ ~StartsWithHeNs(href, "Special:")
                /\ ~StartsWithHeNs(href, "File:")
             THEN <<urljoin(base_url, href)>> \o rest
             ELSE rest

extract_links_from_page(doc, base_url) ==
    IF ~doc.content THEN <<>>                                 \* crawler.py:168-169
    ELSE ArticleLinks(doc.links, base_url)

-----------------------------------------------------------------------------
(* save_article_data and the file name, crawler.py:230-243, 276-278 *)

RECURSIVE SafeTitle(_)
\* crawler.py:276-277: every character that is not alphanumeric, '-' or '_'
\* becomes '_' (a space is kept by line 276 and replaced by line 277)
SafeTitle(title) ==
    IF title = <<>> THEN <<>>
    ELSE <<IF Head(title) \in Alnum \cup {"-", "_"} THEN Head(title) ELSE "_">>
         \o SafeTitle(Tail(title))

\* Variant: the file name is made of the title alone
Filename_titleOnly(title, count) ==
    <<"data/raw/">> \o SafeTitle(title) \o <<".json">>

\* crawler.py:278  f"data/raw/{safe_title}_{article_count}.json"
Filename(title, count) ==
    <<"data/raw/">> \o SafeTitle(title) \o <<"_">> \o Dec(count) \o <<".json">>

\* The disk after open(filename, 'w') succeeds: the file is created or
\* truncated; it holds the one article when json.dump completes
WriteFile(disk, filename, article_data, complete) ==
    {f \in disk : f.name # filename}
    \cup {[name |-> filename, data |-> article_data, complete |-> complete]}

-----------------------------------------------------------------------------
(* The ingester of the files, src/src/knowledge_base/retrieval.py:141-157 *)

\* dict.get(key, default)
DictGet(article, key, default) ==
    IF key \in DOMAIN article THEN article[key] ELSE default

\* retrieval.py:144-152: what _process_single_article reads of one loaded
\* article; `defaulted` are the keys of title, content and url it did not
\* find
ProcessSingleArticle(article) ==
    LET title == DictGet(article, "title", <<>>)
        content == DictGet(article, "content", <<>>)
        url == DictGet(article, "url", <<>>)
    IN  [title |-> title, content |-> content, url |-> url,
         full_text |-> title \o <<"\n", "\n">> \o content,
         defaulted |-> {k \in {"title", "content", "url"} : k \notin DOMAIN article}]

-----------------------------------------------------------------------------
(* get_page_content, crawler.py:41-64 *)

NoDoc == Doc(FALSE, <<>>, FALSE, <<>>)

\* The parts of a page that the article test of crawler.py:270-274 reads
Probe(doc) == [heading |-> doc.heading, title_text |-> doc.title_text,
               content |-> doc.content]

\* What requests.get / raise_for_status can do for one request
Responses ==
    {[kind |-> "ok", doc |-> d] : d \in Docs}
    \cup {[kind |-> k, doc |-> NoDoc] : k \in {"transport_error", "http_error"}}

\* Variant: the request is made outside the try block
get_page_content_raises(url, response) ==
    IF response.kind = "ok"
    THEN [raised |-> FALSE, none |-> FALSE, soup |-> response.doc, slept |-> DELAY]
    ELSE [raised |-> TRUE, none |-> TRUE, soup |-> NoDoc, slept |-> 0]

\* The result of one call: `none` when the function returns None, `slept` the
\* seconds of time.sleep it ran, `raised` when an exception leaves the function
get_page_content(url, response) ==
    IF response.kind = "ok"
    THEN [raised |-> FALSE, none |-> FALSE, soup |-> response.doc, slept |-> DELAY]
    ELSE [raised |-> FALSE, none |-> TRUE, soup |-> NoDoc, slept |-> 0]  \* crawler.py:62-64

\* What the file system can do for one write: open() fails, json.dump fails
\* after open() created the file, or both succeed
IoOutcomes == {"ok", "open_fails", "dump_fails"}

\* Variant: the write is made without the try block
save_article_data_raises(disk, article_data, filename, io) ==
    CASE io = "ok" ->
            [raised |-> FALSE, written |-> TRUE,
             disk |-> WriteFile(disk, filename, article_data, TRUE)]
      [] io = "dump_fails" ->
            [raised |-> TRUE, written |-> FALSE,
             disk |-> WriteFile(disk, filename, article_data, FALSE)]
      [] OTHER ->
            [raised |-> TRUE, written |-> FALSE, disk |-> disk]

\* crawler.py:238-243: the write is tried once; a failure is logged, not raised
save_article_data(disk, article_data, filename, io) ==
    CASE io = "ok" ->
            [raised |-> FALSE, written |-> TRUE,
             disk |-> WriteFile(disk, filename, article_data, TRUE)]
      [] io = "dump_fails" ->
            [raised |-> FALSE, written |-> FALSE,
             disk |-> WriteFile(disk, filename, article_data, FALSE)]
      [] OTHER ->
            [raised |-> FALSE, written |-> FALSE, disk |-> disk]

-----------------------------------------------------------------------------
(* crawl_and_save_articles, crawler.py:245-290 *)

\* Variant: the budget test lets one more iteration through
LoopCondition_offByOne(pending, count, budget) == pending # <<>> /\ count <= budget

\* crawler.py:257
LoopCondition(pending, count, budget) == pending # <<>> /\ count < budget

\* Variant: the visited test is missing
AlreadyVisited_never(url, visited) == FALSE

\* crawler.py:260
AlreadyVisited(url, visited) == url \in visited

\* Variant: the test for the content region is missing
IsArticlePage_headingOnly(doc) == doc.heading

\* crawler.py:270
IsArticlePage(doc) == doc.heading /\ doc.content

\* crawler.py:274
HasTitle(article_data) == article_data.title # <<>>

\* Variant: the test of line 270 is missing
StoresArticle_titleOnly(doc) == HasTitle(extract_article_content(doc))

\* crawler.py:270-274: the page gets an article stored
StoresArticle(doc) == IsArticlePage(doc) /\ HasTitle(extract_article_content(doc))

\* Variant: the loop over new_links stands inside the `if` of line 274
Enqueue_articlesOnly(pending, links, visited, stored) ==
    IF stored
    THEN pending \o SelectSeq(links, LAMBDA link : link \notin visited)
    ELSE pending

\* Whether a list holds a URL
InSeq(url, list) == \E i \in DOMAIN list : list[i] = url

RECURSIVE AppendNew(_, _)
\* The list `order` followed by the URLs of `links` it does not hold yet, each
\* once, in the order of the loop of line 286
AppendNew(order, links) ==
    IF links = <<>> THEN order
    ELSE AppendNew(IF InSeq(Head(links), order) THEN order ELSE Append(order, Head(links)),
                   Tail(links))

\* Variant: line 288 is to_visit.insert(0, link)
Enqueue_insertFront(pending, links, visited, stored) ==
    LET fresh == SelectSeq(links, LAMBDA link : link \notin visited)
    IN  [i \in 1..Len(fresh) |-> fresh[Len(fresh) + 1 - i]] \o pending

\* Variant: the test of line 287 is missing
Enqueue_unfiltered(pending, links, visited, stored) == pending \o links

\* crawler.py:286-288: the loop stands after the `if` of line 270, so it
\* does not read `stored`, whether an article was stored for the page
Enqueue(pending, links, visited, stored) ==
    pending \o SelectSeq(links, LAMBDA link : link \notin visited)

\* Variant: the increment stands outside the `if` of line 274
NextCount_always(count, stored, written) == count + 1

\* Variant: a page whose write failed is not counted
NextCount_onlyWritten(count, stored, written) ==
    IF stored /\ written THEN count + 1 ELSE count

\* crawler.py:274-281: the count after the page is processed; `written` is
\* whether save_article_data managed to write
NextCount(count, stored, written) == IF stored THEN count + 1 ELSE count


\* No extractor is being called on its own
NoResult == [raised |-> FALSE, none |-> FALSE, article_data |-> EmptyArticle,
             stored |-> FALSE]
ExtractIdle ==
    /\ ex_pc = "idle"
    /\ ex_doc = NoDoc
    /\ ex_ret = NoResult
    /\ ex_links = <<>>

\* No operation of the API is being called
NoArg == [force |-> FALSE, existed |-> FALSE, documents |-> <<>>, q_values |-> <<>>,
          fails |-> FALSE]
NoReturn == [raised |-> FALSE, value |-> FALSE, results |-> <<>>, status |-> 0,
             answer |-> <<>>, sources |-> <<>>]
ApiIdle ==
    /\ pinecone = FALSE
    /\ model = FALSE
    /\ index = FALSE
    /\ index_exists = FALSE
    /\ upserts = <<>>
    /\ calls = <<>>
    /\ api_pc = "idle"
    /\ api_arg = NoArg
    /\ api_ret = NoReturn

\* The category pages of the modelled site: /he/Category:1 and /he/Category:2
CatUrls == {Url(BASE_URL.origin, "he", "Category:", n) : n \in Names}

\* A page without <div id="mw-pages">
NoCategoryPage == [members |-> FALSE, anchors |-> <<>>]

\* crawl_category_page is not being called
CategoryIdle ==
    /\ cat_pc = "idle"
    /\ cat_site = [u \in CatUrls |-> NoCategoryPage]
    /\ cat_stack = <<>>
    /\ cat_ret = <<>>
    /\ cat_requests = <<>>

\* The seeds tried
Seeds == {Url(BASE_URL.origin, "he", "", 1), Url(OtherOrigin, "he", "", 1)}

Init ==
    /\ start_url \in Seeds
    /\ max_articles \in 0..MaxBudget
    /\ visited_urls = {}                                       \* crawler.py:253
    /\ to_visit = <<start_url>>                                \* crawler.py:254
    /\ article_count = 0                                       \* crawler.py:255
    /\ pc = "running"
    /\ fetch_log = <<>>
    /\ save_log = <<>>
    /\ files = {}
    /\ soup = Probe(NoDoc)
    /\ new_links = <<>>
    /\ enqueued = <<start_url>>
    /\ ExtractIdle
    /\ ApiIdle
    /\ CategoryIdle

Running == pc = "running" /\ LoopCondition(to_visit, article_count, max_articles)

\* One iteration of the while loop that reaches get_page_content
\* (crawler.py:258-288), given what the server answers and whether the
\* file system accepts a write
LoopBody(response, io) ==
    LET current_url == Head(to_visit)
        got == get_page_content(current_url, response)
        call == [url |-> current_url, ok |-> ~got.none /\ ~got.raised,
                 count |-> article_count, slept |-> got.slept]
        page == got.soup
        stored == StoresArticle(page)
        article_data == extract_article_content(page)
        filename == Filename(article_data.title, article_count)
        saved == save_article_data(files, article_data, filename, io)
    IN  /\ visited_urls' = visited_urls \cup {current_url}     \* crawler.py:263
        /\ fetch_log' = Append(fetch_log, call)                \* crawler.py:264
        /\ soup' = Probe(got.soup)
        /\ UNCHANGED <<start_url, max_articles, othervars>>
        /\ IF got.raised
           THEN /\ pc' = "raised"
                /\ to_visit' = Tail(to_visit)
                /\ UNCHANGED <<article_count, save_log, files, new_links, enqueued>>
           ELSE IF got.none
           THEN /\ to_visit' = Tail(to_visit)                  \* crawler.py:266-267
                /\ UNCHANGED <<article_count, pc, save_log, files, new_links, enqueued>>
           ELSE IF stored /\ saved.raised
           THEN /\ pc' = "raised"
                /\ to_visit' = Tail(to_visit)
                /\ save_log' = Append(save_log, [filename |-> filename,
                                                 data |-> article_data, ok |-> FALSE,
                                                 url |-> current_url])
                /\ files' = saved.disk
                /\ UNCHANGED <<article_count, new_links, enqueued>>
           ELSE /\ article_count' = NextCount(article_count, stored, saved.written)
                /\ save_log' = IF stored
                               THEN Append(save_log, [filename |-> filename,
                                                      data |-> article_data,
                                                      ok |-> saved.written,
                                                      url |-> current_url])
                               ELSE save_log
                /\ files' = IF stored THEN saved.disk ELSE files
                /\ new_links' = extract_links_from_page(page, BASE_URL)
                /\ to_visit' = Enqueue(Tail(to_visit), new_links', visited_urls', stored)
                /\ enqueued' = AppendNew(enqueued,
                                         SelectSeq(new_links', LAMBDA link : InSeq(link, to_visit')))
                /\ UNCHANGED pc

\* Variant: `break` instead of `continue` at line 261
SkipVisited_breaks ==
    /\ Running
    /\ AlreadyVisited(Head(to_visit), visited_urls)
    /\ to_visit' = Tail(to_visit)
    /\ pc' = "completed"
    /\ UNCHANGED <<start_url, max_articles, visited_urls, article_count,
                   fetch_log, save_log, files, soup, new_links, enqueued, othervars>>

\* crawler.py:258-261: the popped URL was visited before
SkipVisited ==
    /\ Running
    /\ AlreadyVisited(Head(to_visit), visited_urls)
    /\ to_visit' = Tail(to_visit)
    /\ UNCHANGED <<start_url, max_articles, visited_urls, article_count, pc,
                   fetch_log, save_log, files, soup, new_links, enqueued, othervars>>

\* crawler.py:263-267: the fetch fails
FetchFailed ==
    /\ Running
    /\ ~AlreadyVisited(Head(to_visit), visited_urls)
    /\ \E response \in Responses :
          /\ response.kind # "ok"
          /\ LoopBody(response, "ok")

\* crawler.py:263-288: the page is fetched and an article is stored for it
StoreArticle ==
    /\ Running
    /\ ~AlreadyVisited(Head(to_visit), visited_urls)
    /\ \E response \in Responses, io \in IoOutcomes :
          /\ response.kind = "ok"
          /\ StoresArticle(response.doc)
          /\ LoopBody(response, io)

\* crawler.py:263-288: the page is fetched and no article is stored for it
NoArticle ==
    /\ Running
    /\ ~AlreadyVisited(Head(to_visit), visited_urls)
    /\ \E response \in Responses :
          /\ response.kind = "ok"
          /\ ~StoresArticle(response.doc)
          /\ LoopBody(response, "ok")

\* Variant: the function writes the last article once more when the loop ends
Complete_flushes ==
    /\ pc = "running"
    /\ ~LoopCondition(to_visit, article_count, max_articles)
    /\ pc' = "completed"
    /\ save_log' = IF save_log = <<>> THEN save_log
                   ELSE Append(save_log, save_log[Len(save_log)])
    /\ UNCHANGED <<start_url, max_articles, visited_urls, to_visit, article_count,
                   fetch_log, files, soup, new_links, enqueued, othervars>>

\* crawler.py:257, 290: the loop condition is false, the function returns
Complete ==
    /\ pc = "running"
    /\ ~LoopCondition(to_visit, article_count, max_articles)
    /\ pc' = "completed"
    /\ UNCHANGED <<start_url, max_articles, visited_urls, to_visit, article_count,
                   fetch_log, save_log, files, soup, new_links, enqueued, othervars>>

Next == SkipVisited \/ FetchFailed \/ StoreArticle \/ NoArticle \/ Complete

Spec == Init /\ [][Next]_vars

\* crawler.py:295-301: a crawl started, as main() starts it, on a page of
\* BASE_URL
SiteInit == Init /\ Origin(start_url) = Origin(BASE_URL)

\* The loop is sequential code: while it can take a step it takes one
FairSpec == SiteInit /\ [][Next]_vars /\ WF_vars(Next)

-----------------------------------------------------------------------------
(* The extractors called on their own, on every page of a bounded family *)

MaxElements == 2    \* h2/h3/p/ul elements inside the content region of one page

\* The hrefs of the pages handed to extract_links_from_page
LinkHrefPool ==
    {RootRel("he", ns, 1) : ns \in {"", "Special:", "File:", "Category:"}}
    \cup {RootRel("en", "", 1), Absolute(OtherOrigin, "he", "", 1), Fragment}

\* The content elements of the pages handed to extract_article_content
ElementPool ==
    {[name |-> "p", text |-> t, items |-> <<>>] : t \in {<<" ">>, <<" ", "a">>}}
    \cup {[name |-> "h2", text |-> <<"b", " ">>, items |-> <<>>],
          [name |-> "ul", text |-> <<>>, items |-> << <<" ", "a">> >>]}

\* Pages that differ in their links, inside and outside the content region
LinkDocs ==
    {[Doc(TRUE, <<" ", "a", "/">>, c, IF c THEN l ELSE <<>>) EXCEPT !.outer_links = o] :
        c \in BOOLEAN, l \in SeqsUpTo(LinkHrefPool, MaxLinks),
        o \in {<<>>, <<RootRel("he", "", 2)>>}}

\* Pages that differ in the parts extract_article_content reads
ArticleDocs ==
    {[FullDoc(h, IF h THEN t ELSE <<>>, c, <<>>, IF c THEN e ELSE <<>>, cats, lastmod,
              IF og = "content" THEN <<"u">> ELSE <<>>)
         EXCEPT !.og_bare = (og = "bare")] :
        h \in BOOLEAN, t \in TitlePool, c \in BOOLEAN,
        e \in SeqsUpTo(ElementPool, MaxElements),
        cats \in {<<>>, << <<" ">>, <<"c", " ">> >>},
        lastmod \in {<<>>, <<" ", "1">>},
        og \in {"absent", "content", "bare"}}

\* No crawl is running
CrawlIdle ==
    /\ start_url = Url(BASE_URL.origin, "he", "", 1)
    /\ max_articles = 0
    /\ visited_urls = {}
    /\ to_visit = <<start_url>>
    /\ article_count = 0
    /\ pc = "idle"
    /\ fetch_log = <<>>
    /\ save_log = <<>>
    /\ files = {}
    /\ soup = Probe(NoDoc)
    /\ new_links = <<>>
    /\ enqueued = <<start_url>>

ExtractInit ==
    /\ CrawlIdle
    /\ ApiIdle
    /\ CategoryIdle
    /\ ex_pc = "ready"
    /\ ex_doc \in LinkDocs \cup ArticleDocs
    /\ ex_ret = NoResult
    /\ ex_links = <<>>

\* extract_article_content(soup) is called, and the test of lines 270-274 is
\* made on the same page
CallExtractArticleContent ==
    /\ ex_pc = "ready"
    /\ ex_pc' = "extract_article_content"
    /\ ex_ret' = [raised |-> extract_article_result(ex_doc).raised,
                  none |-> extract_article_result(ex_doc).none,
                  article_data |-> extract_article_result(ex_doc).article_data,
                  stored |-> StoresArticle(ex_doc)]
    /\ UNCHANGED <<crawlvars, apivars, catvars, ex_doc, ex_links>>

\* extract_links_from_page(soup, BASE_URL) is called
CallExtractLinksFromPage ==
    /\ ex_pc = "ready"
    /\ ex_pc' = "extract_links_from_page"
    /\ ex_links' = extract_links_from_page(ex_doc, BASE_URL)
    /\ UNCHANGED <<crawlvars, apivars, catvars, ex_doc, ex_ret>>

ExtractNext == CallExtractArticleContent \/ CallExtractLinksFromPage

ExtractSpec == ExtractInit /\ [][ExtractNext]_vars

-----------------------------------------------------------------------------
(* The vector database module, src/src/api/utils/vector_db.py *)

\* One call of a Pinecone client method, and whether it returned
Call(op, ok) == [op |-> op, ok |-> ok]

\* The client call that raises during one create_index, if any
IndexFailures == {"none", "list_indexes", "delete_index", "create_index"}

\* vector_db.py:66-77, given the calls made before: the index is created
CreateNew(before, fail) ==
    IF fail = "create_index"
    THEN [raised |-> FALSE, value |-> FALSE, exists |-> FALSE,      \* lines 78-80
          calls |-> Append(before, Call("create_index", FALSE))]
    ELSE [raised |-> FALSE, value |-> TRUE, exists |-> TRUE,
          calls |-> Append(before, Call("create_index", TRUE))]

\* Variant: `force` is not read, an existing index is always kept
create_index_keepsExisting(client, exists, force, fail) ==
    IF ~client
    THEN [raised |-> FALSE, value |-> FALSE, exists |-> exists, calls |-> <<>>]
    ELSE IF fail = "list_indexes"
    THEN [raised |-> FALSE, value |-> FALSE, exists |-> exists,
          calls |-> <<Call("list_indexes", FALSE)>>]
    ELSE IF exists
    THEN [raised |-> FALSE, value |-> TRUE, exists |-> TRUE,
          calls |-> <<Call("list_indexes", TRUE)>>]
    ELSE CreateNew(<<Call("list_indexes", TRUE)>>, fail)

\* vector_db.py:40-80: `client` is whether pc is not None, `exists` whether
\* the service has the index; the result carries the value returned, the
\* calls made and whether the service has the index afterwards.  A call that
\* raises leaves the service as it was.
create_index(client, exists, force, fail) ==
    IF ~client
    THEN [raised |-> FALSE, value |-> FALSE, exists |-> exists, calls |-> <<>>]
    ELSE IF fail = "list_indexes"
    THEN [raised |-> FALSE, value |-> FALSE, exists |-> exists,
          calls |-> <<Call("list_indexes", FALSE)>>]
    ELSE IF exists /\ ~force
    THEN [raised |-> FALSE, value |-> TRUE, exists |-> TRUE,        \* lines 62-64
          calls |-> <<Call("list_indexes", TRUE)>>]
    ELSE IF exists /\ fail = "delete_index"
    THEN [raised |-> FALSE, value |-> FALSE, exists |-> TRUE,
          calls |-> <<Call("list_indexes", TRUE), Call("delete_index", FALSE)>>]
    ELSE IF exists
    THEN CreateNew(<<Call("list_indexes", TRUE), Call("delete_index", TRUE)>>, fail)
    ELSE CreateNew(<<Call("list_indexes", TRUE)>>, fail)

\* vector_db.py:196  if len(vectors) >= 100
BatchSize == 100

MaxBatches == 2     \* full batches in the longest document list tried

\* model.encode(text).tolist()
Encode(text) == <<"embedding", text>>

\* vector_db.py:183-193: the vector of the document at index i of the list
Vector(doc, i) ==
    [id |-> DictGet(doc, "id", <<"doc-">> \o Dec(i)),
     values |-> Encode(doc["content"]),
     metadata |-> [content |-> doc["content"],
                   title |-> DictGet(doc, "title", <<>>),
                   url |-> DictGet(doc, "url", <<>>)]]

\* Variant: the batch is sent when it holds more than 100 vectors
BatchFull_late(len) == len > BatchSize

\* vector_db.py:196, for a list `vectors` of length len
BatchFull(len) == len >= BatchSize

\* How many of `rest` documents the loop collects before it sends a batch or
\* the list ends
BatchLen(rest) ==
    IF \E m \in 1..rest : BatchFull(m)
    THEN CHOOSE m \in 1..rest : BatchFull(m) /\ \A l \in 1..(m - 1) : ~BatchFull(l)
    ELSE rest

RECURSIVE AddLoop(_, _, _, _)
\* vector_db.py:178-204: the loop from index i on, `vectors` being empty and
\* `sent` the batches upserted so far, up to the next upsert; the failAt-th
\* upsert raises (0: none), and so does doc["content"] for a document
\* without that key
AddLoop(documents, i, sent, failAt) ==
    LET size == BatchLen(Len(documents) - i)
        vectors == [k \in 1..size |-> documents[i + k]]
    IN  IF size = 0
        THEN [raised |-> FALSE, value |-> TRUE, sent |-> sent]           \* lines 201, 204
        ELSE IF \E k \in 1..size : "content" \notin DOMAIN vectors[k]
        THEN [raised |-> FALSE, value |-> FALSE, sent |-> sent]          \* lines 205-207
        ELSE IF Len(sent) + 1 = failAt
        THEN [raised |-> FALSE, value |-> FALSE, sent |-> sent]
        ELSE AddLoop(documents, i + size,
                     Append(sent, [k \in 1..size |-> Vector(vectors[k], i + k - 1)]),
                     failAt)

\* vector_db.py:166-207
add_documents(has_model, has_index, documents, failAt) ==
    IF ~has_model \/ ~has_index
    THEN [raised |-> FALSE, value |-> FALSE, sent |-> <<>>]            \* lines 173-175
    ELSE AddLoop(documents, 0, <<>>, failAt)

\* The lengths of the document lists tried: around the batch boundaries
DocCounts ==
    {0, 1} \cup {k * BatchSize + d : k \in 1..MaxBatches, d \in {-1, 0, 1}}

\* A list of n documents: the one at position idAt has an 'id', the one at
\* position badAt has no 'content' (0: no such document)
Documents(n, idAt, badAt) ==
    [k \in 1..n |->
        IF k = badAt THEN [title |-> <<"t">>]
        ELSE IF k = idAt THEN [id |-> <<"x">>, content |-> Dec(k)]
        ELSE [content |-> Dec(k), url |-> <<"u">>]]

\* query.py:30  query_knowledge_base(q, top_k=5)
TopK == 5

\* query.py:41  results[:3]
SourceLimit == 3

MaxMatches == 6     \* vectors the index holds that match a question

Min(a, b) == IF a <= b THEN a ELSE b

\* The k-th best match of the index; a bare match has metadata without
\* content, title and url
Match(k, bare) ==
    [score |-> k,
     metadata |-> IF bare THEN [category |-> <<"c">>]
                  ELSE [content |-> <<"c">> \o Dec(k), title |-> <<"t">> \o Dec(k),
                        url |-> <<"u">> \o Dec(k)]]

\* index.query(vector, top_k, include_metadata=True).matches when the index
\* holds m matching vectors, the best of them bare or not
IndexQuery(m, top_k, bare) == [k \in 1..Min(m, top_k) |-> Match(k, bare /\ k = 1)]

\* vector_db.py:126-134
FormatMatch(match) ==
    [content |-> DictGet(match.metadata, "content", <<>>),
     metadata |-> [title |-> DictGet(match.metadata, "title", <<>>),
                   url |-> DictGet(match.metadata, "url", <<>>),
                   category |-> DictGet(match.metadata, "category", <<>>)],
     relevance_score |-> match.score]

\* Variant: the query is made without the try block
query_knowledge_base_raises(has_model, has_index, question, top_k, m, bare, fails) ==
    IF ~has_model \/ ~has_index
    THEN [raised |-> FALSE, value |-> <<>>]
    ELSE IF fails
    THEN [raised |-> TRUE, value |-> <<>>]
    ELSE [raised |-> FALSE,
          value |-> [k \in 1..Min(m, top_k) |-> FormatMatch(IndexQuery(m, top_k, bare)[k])]]

\* vector_db.py:97-140; `fails` when model.encode or index.query raises
query_knowledge_base(has_model, has_index, question, top_k, m, bare, fails) ==
    IF ~has_model \/ ~has_index
    THEN [raised |-> FALSE, value |-> <<>>]                          \* lines 108-110
    ELSE IF fails
    THEN [raised |-> FALSE, value |-> <<>>]                          \* lines 138-140
    ELSE [raised |-> FALSE,
          value |-> [k \in 1..Min(m, top_k) |-> FormatMatch(IndexQuery(m, top_k, bare)[k])]]

-----------------------------------------------------------------------------
(* The query handler, src/src/api/query.py *)

\* query.py:20-23: parse_qs drops the blank values of a parameter; q is the
\* first value kept, or '' when there is none
QueryParam(q_values) ==
    LET kept == SelectSeq(q_values, LAMBDA v : v # <<>>)
    IN  IF kept = <<>> THEN <<>> ELSE kept[1]

\* The values of the parameter q in the requests tried
QueryValues == {<<>>, << <<>> >>, << <<"x">> >>, << <<>>, <<"x">> >>, << <<" ">>, <<"y">> >>}

\* query.py:44: the fixed answer when nothing was found
Fallback == <<"no relevant information found">>

\* Variant: the sources are not cut to the top three
Sources_all(results) ==
    [i \in DOMAIN results |->
        [title |-> results[i].metadata.title, url |-> results[i].metadata.url]]

\* query.py:36-42
Sources(results) ==
    [i \in 1..Min(SourceLimit, Len(results)) |->
        [title |-> results[i].metadata.title, url |-> results[i].metadata.url]]

\* query.py:15-56: the response sent and the calls of query_knowledge_base
\* made, for a request with the values q_values of q
do_GET(has_model, has_index, q_values, m, bare, fails) ==
    LET q == QueryParam(q_values)
        kb == query_knowledge_base(has_model, has_index, q, TopK, m, bare, fails)
        results == kb.value
        called == <<[op |-> "query_knowledge_base", question |-> q, top_k |-> TopK]>>
    IN  IF q = <<>>
        THEN [status |-> 400, query |-> q, answer |-> <<>>, sources |-> <<>>,  \* lines 25-27
              results |-> <<>>, kb_raised |-> FALSE, calls |-> <<>>]
        ELSE IF kb.raised
        THEN [status |-> 500, query |-> q, answer |-> <<>>, sources |-> <<>>,  \* lines 54-56
              results |-> <<>>, kb_raised |-> TRUE, calls |-> called]
        ELSE [status |-> 200, query |-> q,
              answer |-> IF results # <<>> THEN results[1].content ELSE Fallback,
              sources |-> IF results # <<>> THEN Sources(results) ELSE <<>>,
              results |-> results, kb_raised |-> FALSE, calls |-> called]

\* The module is imported: the client and the model may have failed to load
\* (lines 25-38); get_index gives None without a client (lines 84-86)
ApiInit ==
    /\ CrawlIdle
    /\ ExtractIdle
    /\ CategoryIdle
    /\ pinecone \in BOOLEAN
    /\ model \in BOOLEAN
    /\ index \in BOOLEAN
    /\ index => pinecone
    /\ index_exists \in BOOLEAN
    /\ upserts = <<>>
    /\ calls = <<>>
    /\ api_pc = "ready"
    /\ api_arg = NoArg
    /\ api_ret = NoReturn

\* create_index(force) is called
CreateIndex ==
    /\ api_pc = "ready"
    /\ \E force \in BOOLEAN, fail \in IndexFailures :
          LET done == create_index(pinecone, index_exists, force, fail)
          IN  /\ api_pc' = "create_index"
              /\ api_arg' = [NoArg EXCEPT !.force = force, !.existed = index_exists]
              /\ api_ret' = [NoReturn EXCEPT !.raised = done.raised, !.value = done.value]
              /\ index_exists' = done.exists
              /\ calls' = done.calls
    /\ UNCHANGED <<crawlvars, extractvars, catvars, pinecone, model, index, upserts>>

\* add_documents(documents) is called
AddDocuments ==
    /\ api_pc = "ready"
    /\ \E n \in DocCounts, failAt \in 0..(MaxBatches + 1) :
       \E idAt \in {0, 1, n}, badAt \in {0, n} :
          LET documents == Documents(n, idAt, badAt)
              done == add_documents(model, index, documents, failAt)
          IN  /\ api_pc' = "add_documents"
              /\ api_arg' = [NoArg EXCEPT !.documents = documents]
              /\ api_ret' = [NoReturn EXCEPT !.raised = done.raised, !.value = done.value]
              /\ upserts' = upserts \o done.sent
              /\ calls' = [b \in DOMAIN done.sent |-> Call("upsert", TRUE)]
    /\ UNCHANGED <<crawlvars, extractvars, catvars, pinecone, model, index,
                   index_exists>>

\* A GET request reaches Handler.do_GET
DoGet ==
    /\ api_pc = "ready"
    /\ \E q_values \in QueryValues, m \in 0..MaxMatches, bare \in BOOLEAN,
          fails \in BOOLEAN :
          LET done == do_GET(model, index, q_values, m, bare, fails)
          IN  /\ api_pc' = "do_GET"
              /\ api_arg' = [NoArg EXCEPT !.q_values = q_values, !.fails = fails]
              /\ api_ret' = [raised |-> done.kb_raised, value |-> FALSE,
                             results |-> done.results, status |-> done.status,
                             answer |-> done.answer, sources |-> done.sources]
              /\ calls' = done.calls
    /\ UNCHANGED <<crawlvars, extractvars, catvars, pinecone, model, index,
                   index_exists, upserts>>

ApiNext == CreateIndex \/ AddDocuments \/ DoGet

ApiSpec == ApiInit /\ [][ApiNext]_vars

-----------------------------------------------------------------------------
(* crawl_category_page, crawler.py:189-228 *)

MaxAnchors == 2     \* <a href> tags inside <div id="mw-pages"> of one page
MaxDepth == 3       \* activations of crawl_category_page the interpreter's
                    \* recursion limit leaves room for

\* The <a href> of the category pages: a link to an article, and links with
\* the text 'next page' to each category page
AnchorPool ==
    {[href |-> RootRel("he", "", 1), next |-> FALSE]}
    \cup {[href |-> RootRel("he", "Category:", n), next |-> TRUE] : n \in Names}

\* The category pages a site may serve
CategoryPages ==
    {NoCategoryPage}
    \cup {[members |-> TRUE, anchors |-> a] : a \in SeqsUpTo(AnchorPool, MaxAnchors)}

RECURSIVE MemberLinks(_)
\* crawler.py:211-217
MemberLinks(anchors) ==
    IF anchors = <<>> THEN <<>>
    ELSE LET href == Head(anchors).href
         IN  IF StartsWithHe(href) /\ ~StartsWithHeNs(href, "Category:")
             THEN <<urljoin(BASE_URL, href)>> \o MemberLinks(Tail(anchors))
             ELSE MemberLinks(Tail(anchors))

\* crawler.py:221-223, 226: the anchors with the text 'next page'; the loop
\* follows the first and breaks
NextAnchors(anchors) == SelectSeq(anchors, LAMBDA a : a.next)

\* The activation that is running
Top == cat_stack[Len(cat_stack)]

\* The stack with article_urls of the running activation set
WithUrls(urls) == [cat_stack EXCEPT ![Len(cat_stack)].article_urls = urls]

\* The running activation returns `urls` to its caller (or to the outside)
Return(urls) ==
    /\ cat_ret' = urls
    /\ cat_stack' = SubSeq(cat_stack, 1, Len(cat_stack) - 1)
    /\ cat_pc' = IF Len(cat_stack) = 1 THEN "returned" ELSE "returning"

\* crawl_category_page(category_url) is called for a category page of some
\* site
CategoryInit ==
    /\ CrawlIdle
    /\ ExtractIdle
    /\ ApiIdle
    /\ cat_pc = "calling"
    /\ cat_site \in [CatUrls -> CategoryPages]
    /\ \E u \in CatUrls : cat_stack = <<[category_url |-> u, article_urls |-> <<>>]>>
    /\ cat_ret = <<>>
    /\ cat_requests = <<>>

\* crawler.py:199-208: the request fails, or the page has no members div
CategoryNoMembers ==
    /\ cat_pc = "calling"
    /\ \E response \in {"ok", "failed"} :
          response = "failed" \/ ~cat_site[Top.category_url].members
    /\ cat_requests' = Append(cat_requests, Top.category_url)
    /\ Return(<<>>)
    /\ UNCHANGED <<crawlvars, extractvars, apivars, cat_site>>

\* crawler.py:199-228: the page has no 'next page' link
CategoryLastPage ==
    /\ cat_pc = "calling"
    /\ cat_site[Top.category_url].members
    /\ NextAnchors(cat_site[Top.category_url].anchors) = <<>>
    /\ cat_requests' = Append(cat_requests, Top.category_url)
    /\ Return(MemberLinks(cat_site[Top.category_url].anchors))
    /\ UNCHANGED <<crawlvars, extractvars, apivars, cat_site>>

\* crawler.py:199-224: the page has a 'next page' link and the function
\* calls itself for the first one.  When the recursion limit is reached the
\* interpreter raises RecursionError: either it leaves crawl_category_page, or
\* it is raised inside the try block of get_page_content, which returns None,
\* so that the new activation returns the empty list
CategoryNextPage ==
    /\ cat_pc = "calling"
    /\ cat_site[Top.category_url].members
    /\ NextAnchors(cat_site[Top.category_url].anchors) # <<>>
    /\ cat_requests' = Append(cat_requests, Top.category_url)
    /\ LET page == cat_site[Top.category_url]
           next_url == urljoin(BASE_URL, NextAnchors(page.anchors)[1].href)
           collected == WithUrls(MemberLinks(page.anchors))
       IN  IF Len(cat_stack) < MaxDepth
           THEN /\ cat_stack' = Append(collected,
                                       [category_url |-> next_url, article_urls |-> <<>>])
                /\ UNCHANGED <<cat_pc, cat_ret>>
           ELSE \/ /\ cat_pc' = "raised"
                   /\ cat_stack' = collected
                   /\ UNCHANGED cat_ret
                \/ /\ cat_pc' = "returning"
                   /\ cat_stack' = collected
                   /\ cat_ret' = <<>>
    /\ UNCHANGED <<crawlvars, extractvars, apivars, cat_site>>

\* crawler.py:224-228: the inner call has returned; its list is appended and
\* the activation returns
CategoryReturn ==
    /\ cat_pc = "returning"
    /\ Return(Top.article_urls \o cat_ret)
    /\ UNCHANGED <<crawlvars, extractvars, apivars, cat_site, cat_requests>>

CategoryNext ==
    CategoryNoMembers \/ CategoryLastPage \/ CategoryNextPage \/ CategoryReturn

CategorySpec == CategoryInit /\ [][CategoryNext]_vars

-----------------------------------------------------------------------------
(* Properties of crawl_and_save_articles *)

Last(seq) == seq[Len(seq)]

FetchedUrls == {fetch_log[i].url : i \in DOMAIN fetch_log}

\* C1: in one run every URL is passed to get_page_content at most once, even
\* when it is pending several times; the URLs fetched are exactly the visited
\* ones, so a visited URL is never fetched again.
C1_FetchAtMostOnce ==
    /\ \A i, j \in DOMAIN fetch_log :
          fetch_log[i].url = fetch_log[j].url => i = j
    /\ FetchedUrls = visited_urls

\* A URL was pending twice, was fetched once, and its second entry is the
\* next one the loop pops
C1_Witness ==
    /\ pc = "running"
    /\ LoopCondition(to_visit, article_count, max_articles)
    /\ Head(to_visit) \in FetchedUrls
    /\ Len(fetch_log) >= 2

\* C2: article_count never exceeds max_articles, and get_page_content is
\* never called once article_count has reached max_articles.
C2_BudgetRespected ==
    /\ article_count <= max_articles
    /\ \A i \in DOMAIN fetch_log : fetch_log[i].count < max_articles

\* The budget ended a crawl that still had URLs pending
C2_Witness ==
    /\ pc = "completed"
    /\ max_articles > 0
    /\ article_count = max_articles
    /\ to_visit # <<>>

\* C3 as claimed: every URL fetched and every URL pending has the origin of
\* the seed.
C3_SeedOriginContainment ==
    /\ \A i \in DOMAIN fetch_log : Origin(fetch_log[i].url) = Origin(start_url)
    /\ \A i \in DOMAIN to_visit : Origin(to_visit[i]) = Origin(start_url)

\* C3: every URL the crawl appends to to_visit, and so every URL it fetches
\* other than the seed, has the origin of BASE_URL; it is the seed's origin
\* when the seed is a page of BASE_URL.
C3_BaseOriginContainment ==
    /\ \A i \in DOMAIN fetch_log :
          fetch_log[i].url = start_url \/ Origin(fetch_log[i].url) = Origin(BASE_URL)
    /\ \A i \in DOMAIN to_visit :
          to_visit[i] = start_url \/ Origin(to_visit[i]) = Origin(BASE_URL)
    /\ Origin(start_url) = Origin(BASE_URL) =>
          /\ \A i \in DOMAIN fetch_log : Origin(fetch_log[i].url) = Origin(start_url)
          /\ \A i \in DOMAIN to_visit : Origin(to_visit[i]) = Origin(start_url)

\* A seed of another origin: links of its page were appended and one of them
\* was fetched
C3_Witness ==
    /\ Origin(start_url) # Origin(BASE_URL)
    /\ Len(fetch_log) >= 2
    /\ Origin(Last(fetch_log).url) = Origin(BASE_URL)
    /\ to_visit # <<>>

\* C4: the crawl returns; it leaves the loop exactly when to_visit is empty
\* or article_count >= max_articles; no exception ends it before that.
C4_Terminates ==
    /\ <>(pc = "completed")
    /\ [](pc # "raised")
    /\ [][pc' = "completed" => (to_visit = <<>> \/ article_count >= max_articles)]_vars
    /\ [][(pc = "running" /\ (to_visit = <<>> \/ article_count >= max_articles))
             => pc' = "completed"]_vars

\* A crawl returned with the frontier exhausted after a fetch failed and a
\* write failed
C4_Witness ==
    /\ pc = "completed"
    /\ to_visit = <<>>
    /\ \E i \in DOMAIN fetch_log : ~fetch_log[i].ok
    /\ \E i \in DOMAIN save_log : ~save_log[i].ok

\* C5: a failed fetch leaves its URL visited, article_count and the files
\* unchanged, appends nothing to to_visit and keeps the loop running; the
\* URL is not fetched a second time.
C5_FetchFailureSkipsUrl ==
    /\ [][(Len(fetch_log') = Len(fetch_log) + 1 /\ ~Last(fetch_log').ok) =>
            /\ Last(fetch_log').url = Head(to_visit)
            /\ Head(to_visit) \in visited_urls'
            /\ article_count' = article_count
            /\ to_visit' = Tail(to_visit)
            /\ save_log' = save_log
            /\ files' = files
            /\ pc' = "running"]_vars
    /\ [](\A i, j \in DOMAIN fetch_log :
            (~fetch_log[i].ok /\ fetch_log[j].url = fetch_log[i].url) => i = j)

\* A fetch failed and the crawl went on to fetch another URL
C5_Witness ==
    \E i \in DOMAIN fetch_log : ~fetch_log[i].ok /\ i < Len(fetch_log)

\* C6 as claimed: floor(N/10) files are written for N articles and the i-th
\* file holds the articles of all pages stored so far.
C6_CumulativeCheckpoints ==
    /\ Len(save_log) = article_count \div 10
    /\ \A i \in DOMAIN save_log :
          {save_log[i].url} = {save_log[j].url : j \in 1..i}

\* C6: one file is written per counted article, N writes for N articles; the
\* i-th write holds the one article of the i-th stored page, under a name made
\* of its title and the count i-1.
C6_OneFilePerArticle ==
    /\ Len(save_log) = article_count
    /\ \A i \in DOMAIN save_log :
          /\ save_log[i].data.title # <<>>
          /\ save_log[i].filename = Filename(save_log[i].data.title, i - 1)
          /\ \A j \in DOMAIN save_log : save_log[j].url = save_log[i].url => i = j
    /\ \A f \in files : \E i \in DOMAIN save_log :
          f.name = save_log[i].filename /\ f.data = save_log[i].data

\* Two articles were counted and two files written
C6_Witness ==
    /\ article_count = 2
    /\ Len(save_log) = 2
    /\ Cardinality(files) = 2

\* Whether the article of the i-th write is on disk, whole
Persisted(i) ==
    \E f \in files :
        f.name = save_log[i].filename /\ f.data = save_log[i].data /\ f.complete

\* C7 as claimed: the step that ends the loop writes the accumulated articles,
\* and at completion every article is on disk.
C7_FinalFlush ==
    /\ [][(pc = "running" /\ pc' = "completed" /\ article_count > 0)
             => Len(save_log') > Len(save_log)]_vars
    /\ [](pc = "completed" => \A i \in DOMAIN save_log : Persisted(i))

\* C7: nothing is written when the loop ends; every article was handed to
\* save_article_data once, when it was counted, so at completion an article is
\* on disk exactly when that one write succeeded.
C7_NoFinalFlush ==
    /\ [][pc' = "completed" => (save_log' = save_log /\ files' = files)]_vars
    /\ [](pc = "completed" =>
            /\ Len(save_log) = article_count
            /\ \A i \in DOMAIN save_log : save_log[i].ok <=> Persisted(i))

\* A crawl returned with one article on disk and one lost to a failed write
C7_Witness ==
    /\ pc = "completed"
    /\ \E i \in DOMAIN save_log : save_log[i].ok /\ Persisted(i)
    /\ \E i \in DOMAIN save_log : ~save_log[i].ok /\ ~Persisted(i)

\* C8 as claimed: an article whose write failed is written again by a later
\* write, at the latest when the crawl completes.
C8_FailedSaveRetried ==
    pc = "completed" =>
        \A i \in DOMAIN save_log :
            ~save_log[i].ok =>
                \E j \in DOMAIN save_log : j > i /\ save_log[j].url = save_log[i].url

\* C8: a failed write is not raised and the crawl state is as after a
\* successful one (the article is counted); the article is never written
\* again and is not on disk.
C8_FailedSaveNotRetried ==
    /\ pc # "raised"
    /\ article_count = Len(save_log)
    /\ \A i \in DOMAIN save_log :
          ~save_log[i].ok =>
              /\ \A j \in DOMAIN save_log : save_log[j].url = save_log[i].url => i = j
              /\ ~Persisted(i)

\* A write failed and a later write succeeded
C8_Witness ==
    \E i, j \in DOMAIN save_log : i < j /\ ~save_log[i].ok /\ save_log[j].ok

\* C9: when a page is fetched and no article is stored for it, the links
\* extracted from it that are not visited are appended to to_visit.
C9_LinksEnqueuedWithoutArticle ==
    [][(Len(fetch_log') = Len(fetch_log) + 1 /\ Last(fetch_log').ok
          /\ save_log' = save_log) =>
            to_visit' = Tail(to_visit)
                        \o SelectSeq(new_links', LAMBDA l : l \notin visited_urls')]_vars

\* A page without a heading was fetched, no article was stored and its two
\* links are pending
C9_Witness ==
    /\ Len(fetch_log) = 1
    /\ Last(fetch_log).ok
    /\ soup.content /\ ~soup.heading
    /\ save_log = <<>>
    /\ Len(new_links) = 2
    /\ to_visit = new_links

\* C10: article_count grows by exactly one, with exactly one call of
\* save_article_data, in a step that fetches a page with a heading, a content
\* region and a title that is not blank; it changes in no other step.
C10_CountPerStoredArticle ==
    [][LET fetched == Len(fetch_log') = Len(fetch_log) + 1 /\ Last(fetch_log').ok
           usable == /\ fetched
                     /\ soup'.heading
                     /\ soup'.content
                     /\ strip(soup'.title_text) # <<>>
       IN  IF usable
           THEN /\ article_count' = article_count + 1
                /\ Len(save_log') = Len(save_log) + 1
                /\ SubSeq(save_log', 1, Len(save_log)) = save_log
                /\ Last(save_log').data.title = strip(soup'.title_text)
                /\ Last(save_log').url = Last(fetch_log').url
           ELSE /\ article_count' = article_count
                /\ save_log' = save_log]_vars

\* One article was counted and then a page with a blank heading was fetched
\* and not counted
C10_Witness ==
    /\ article_count = 1
    /\ Len(save_log) = 1
    /\ Len(fetch_log) >= 2
    /\ Last(fetch_log).ok
    /\ soup.heading /\ soup.content
    /\ strip(soup.title_text) = <<>>

\* C11: every link a step appends to to_visit is, when it is appended, not in
\* visited_urls (which by then holds the URL of the page being processed).
C11_AppendedNotVisited ==
    [][to_visit' # to_visit =>
          /\ to_visit # <<>>
          /\ Len(to_visit') >= Len(to_visit) - 1
          /\ SubSeq(to_visit', 1, Len(to_visit) - 1) = Tail(to_visit)
          /\ \A i \in Len(to_visit)..Len(to_visit') : to_visit'[i] \notin visited_urls']_vars

\* The first page fetched links to itself and to another page: only the other
\* page was appended
C11_Witness ==
    /\ Len(fetch_log) = 1
    /\ Last(fetch_log).ok
    /\ Len(new_links) = 2
    /\ \E i \in DOMAIN new_links : new_links[i] \in visited_urls
    /\ Len(to_visit) = 1
    /\ to_visit[1] \notin visited_urls

\* C12 as claimed: every request of get_page_content, failed or not, is
\* followed by a sleep of DELAY >= 1 seconds, so two consecutive requests are
\* at least one delay apart.
C12_DelayEveryRequest ==
    /\ DELAY >= 1
    /\ \A i \in DOMAIN fetch_log : fetch_log[i].slept >= DELAY

\* C13 as claimed: extract_links_from_page returns only links of <a href>
\* inside the content region, none from an href that is a pure fragment, none
\* to a page of a namespace (a non-article page), and none outside the origin
\* of the crawl.
C13_OnlyArticleLinks ==
    ex_pc = "extract_links_from_page" =>
        \A i \in DOMAIN ex_links :
            /\ ~ex_links[i].frag
            /\ ex_links[i].ns = ""
            /\ Origin(ex_links[i]) = Origin(BASE_URL)
            /\ \E j \in DOMAIN ex_doc.links :
                  /\ ex_doc.links[j].kind # "frag"
                  /\ ex_links[i] = urljoin(BASE_URL, ex_doc.links[j])

\* C14 as claimed: for a page without a content region
\* extract_article_content returns None, and no article is stored.
C14_NoneWithoutContent ==
    (ex_pc = "extract_article_content" /\ ~ex_doc.content) =>
        /\ ex_ret.none
        /\ ~ex_ret.stored

\* C14: for a page without a content region extract_article_content returns
\* the article record, not None, with the stripped heading as title and every
\* other field at its default; lines 270-274 store no article for the page.
C14_TitleOnlyWithoutContent ==
    (ex_pc = "extract_article_content" /\ ~ex_doc.content) =>
        /\ ~ex_ret.none
        /\ ~ex_ret.raised
        /\ ex_ret.article_data =
              [EmptyArticle EXCEPT
                 !.title = IF ex_doc.heading THEN strip(ex_doc.title_text) ELSE <<>>]
        /\ ~ex_ret.stored

\* A page with a heading, categories and a footer but no content region: the
\* record has the title only, and the page is not stored
C14_Witness ==
    /\ ex_pc = "extract_article_content"
    /\ ~ex_doc.content
    /\ ex_doc.heading
    /\ ex_doc.cats # <<>>
    /\ ex_doc.lastmod # <<>>
    /\ ex_ret.article_data.title = <<"a", "/">>
    /\ ~ex_ret.stored

\* The <p> elements of a page
Paragraphs(doc) == SelectSeq(doc.elements, LAMBDA e : e.name = "p")

\* C15 as claimed: extract_article_content never raises; a page with a content
\* region and no heading gives title "" and, when it has paragraphs, a
\* non-empty `content`; a missing heading, category box, footer date or
\* og:url gives the empty default of that field.
C15_ContentWhenParagraphs ==
    ex_pc = "extract_article_content" =>
        LET article_data == ex_ret.article_data
        IN  /\ ~ex_ret.raised
            /\ (ex_doc.content /\ ~ex_doc.heading) =>
                  /\ article_data.title = <<>>
                  /\ Paragraphs(ex_doc) # <<>> =>
                        /\ "content" \in DOMAIN article_data
                        /\ article_data["content"] # <<>>
            /\ ~ex_doc.heading => article_data.title = <<>>
            /\ ex_doc.cats = <<>> => article_data.categories = <<>>
            /\ ex_doc.lastmod = <<>> => article_data.last_updated = <<>>
            /\ ex_doc.og_url = <<>> => article_data.source_url = <<>>

\* C15: extract_article_content never raises and returns a record with the
\* keys title, summary, sections, categories, last_updated, source_url (there
\* is no `content`).  For a page with a content region and no heading the
\* title is "", the summary is the stripped text of the first paragraph, and
\* the sections are non-empty when a paragraph has text that is not blank;
\* when the page has no list and every paragraph is blank the summary and
\* the sections are empty.  A missing heading, category box, footer date or
\* og:url (or one without a content attribute) gives the empty default.
C15_DegradesToDefaults ==
    ex_pc = "extract_article_content" =>
        LET article_data == ex_ret.article_data
            texts == {strip(Paragraphs(ex_doc)[i].text) : i \in DOMAIN Paragraphs(ex_doc)}
            lists == SelectSeq(ex_doc.elements, LAMBDA e : e.name = "ul")
        IN  /\ ~ex_ret.raised
            /\ ~ex_ret.none
            /\ DOMAIN article_data = {"title", "summary", "sections", "categories",
                                      "last_updated", "source_url"}
            /\ (ex_doc.content /\ ~ex_doc.heading) =>
                  /\ article_data.title = <<>>
                  /\ Paragraphs(ex_doc) # <<>> =>
                        article_data.summary = strip(Paragraphs(ex_doc)[1].text)
                  /\ (texts \ {<<>>}) # {} =>
                        /\ article_data.sections # <<>>
                        /\ \A k \in DOMAIN article_data.sections :
                              strip(article_data.sections[k].content) # <<>>
                  /\ (texts \subseteq {<<>>} /\ lists = <<>>) =>
                        /\ article_data.summary = <<>>
                        /\ article_data.sections = <<>>
            /\ ~ex_doc.heading => article_data.title = <<>>
            /\ ex_doc.cats = <<>> => article_data.categories = <<>>
            /\ ex_doc.lastmod = <<>> => article_data.last_updated = <<>>
            /\ (ex_doc.og_url = <<>> \/ ex_doc.og_bare) => article_data.source_url = <<>>

\* A page without a heading whose content region has a blank paragraph and
\* one with text, and whose og:url meta tag has no content attribute
C15_Witness ==
    /\ ex_pc = "extract_article_content"
    /\ ex_doc.content
    /\ ~ex_doc.heading
    /\ ex_doc.og_bare
    /\ Len(Paragraphs(ex_doc)) = 2
    /\ strip(Paragraphs(ex_doc)[1].text) = <<>>
    /\ ex_ret.article_data.title = <<>>
    /\ ex_ret.article_data.summary = <<>>
    /\ Len(ex_ret.article_data.sections) = 1
    /\ ~ex_ret.raised

\* The calls of one client method among the calls made
CallsOf(op) == SelectSeq(calls, LAMBDA c : c.op = op)

\* C19: create_index never raises and returns a boolean.  An existing index
\* without force is neither deleted nor created and the result is True; with
\* force it is deleted and then created; a missing index is created.  The
\* result is False exactly when the client is not initialised or a client
\* call fails, and a failed create after the delete of a forced recreate
\* leaves the service without the index.
C19_CreateIndexOutcomes ==
    api_pc = "create_index" =>
        LET failed == \E i \in DOMAIN calls : ~calls[i].ok
            ops == [i \in DOMAIN calls |-> calls[i].op]
        IN  /\ ~api_ret.raised
            /\ api_ret.value \in BOOLEAN
            /\ api_ret.value <=> (pinecone /\ ~failed)
            /\ ~pinecone => (calls = <<>> /\ index_exists = api_arg.existed)
            /\ (pinecone /\ ~failed /\ api_arg.existed /\ ~api_arg.force) =>
                  (ops = <<"list_indexes">> /\ index_exists)
            /\ (pinecone /\ ~failed /\ api_arg.existed /\ api_arg.force) =>
                  (ops = <<"list_indexes", "delete_index", "create_index">> /\ index_exists)
            /\ (pinecone /\ ~failed /\ ~api_arg.existed) =>
                  (ops = <<"list_indexes", "create_index">> /\ index_exists)
            /\ (failed /\ CallsOf("delete_index") = <<Call("delete_index", TRUE)>>) =>
                  ~index_exists
            /\ (failed /\ CallsOf("delete_index") # <<Call("delete_index", TRUE)>>) =>
                  index_exists = api_arg.existed

\* A forced recreate deleted the index, the create failed, and False was
\* returned with the index gone
C19_Witness ==
    /\ api_pc = "create_index"
    /\ api_arg.force
    /\ api_arg.existed
    /\ ~index_exists
    /\ ~api_ret.value
    /\ calls = <<Call("list_indexes", TRUE), Call("delete_index", TRUE),
                 Call("create_index", FALSE)>>

RECURSIVE Flatten(_)
\* The vectors of a sequence of batches, in order
Flatten(batches) ==
    IF batches = <<>> THEN <<>> ELSE Head(batches) \o Flatten(Tail(batches))

\* C18: add_documents never raises.  When it returns True every upsert made
\* carries between 1 and 100 vectors and the vectors upserted are those of
\* the documents, each once and in input order, a document without 'id'
\* under 'doc-<index>'.  When it returns False the batches upserted before
\* the failure stay upserted: full batches of the first documents.
C18_BatchedUpserts ==
    api_pc = "add_documents" =>
        LET docs == api_arg.documents
            flat == Flatten(upserts)
            faithful ==
                \A k \in DOMAIN flat :
                    /\ flat[k].id = DictGet(docs[k], "id", <<"doc-">> \o Dec(k - 1))
                    /\ flat[k].values = Encode(docs[k]["content"])
                    /\ flat[k].metadata.content = docs[k]["content"]
        IN  /\ ~api_ret.raised
            /\ api_ret.value \in BOOLEAN
            /\ Len(calls) = Len(upserts)
            /\ api_ret.value =>
                  /\ model /\ index
                  /\ \A b \in DOMAIN upserts : Len(upserts[b]) \in 1..BatchSize
                  /\ Len(flat) = Len(docs)
                  /\ faithful
            /\ ~api_ret.value =>
                  /\ \A b \in DOMAIN upserts : Len(upserts[b]) = BatchSize
                  /\ Len(flat) <= Len(docs)
                  /\ faithful

\* 201 documents went out in three upserts of 100, 100 and 1 vectors; the
\* first document kept its own id, the last one got doc-200
C18_Witness ==
    /\ api_pc = "add_documents"
    /\ api_ret.value
    /\ Len(upserts) = 3
    /\ Len(upserts[1]) = BatchSize
    /\ Len(upserts[3]) = 1
    /\ upserts[1][1].id = <<"x">>
    /\ upserts[3][1].id = <<"doc-", "2", "0", "0">>

\* C20: a GET whose q is missing or blank is answered 400 and
\* query_knowledge_base is not called.  Otherwise it is called exactly once,
\* with q and top_k = 5, and the answer is 200: with results, the answer is
\* the content of the first and the sources are title and url of the first
\* min(3, n) in order; without results, the fixed fallback answer and no
\* sources.  query_knowledge_base raises nothing and gives no results when the
\* model or the index is not initialised or the query fails.
C20_QueryHandler ==
    api_pc = "do_GET" =>
        LET given == {api_arg.q_values[i] : i \in DOMAIN api_arg.q_values} \ {<<>>}
            results == api_ret.results
            n == Len(results)
        IN  /\ ~api_ret.raised
            /\ given = {} => (api_ret.status = 400 /\ calls = <<>>)
            /\ given # {} =>
                  /\ Len(calls) = 1
                  /\ calls[1].op = "query_knowledge_base"
                  /\ calls[1].question \in given
                  /\ calls[1].top_k = 5
                  /\ api_ret.status = 200
                  /\ n <= 5
                  /\ n > 0 =>
                        /\ api_ret.answer = results[1].content
                        /\ Len(api_ret.sources) = Min(3, n)
                        /\ \A i \in DOMAIN api_ret.sources :
                              /\ api_ret.sources[i].title = results[i].metadata.title
                              /\ api_ret.sources[i].url = results[i].metadata.url
                  /\ n = 0 => (api_ret.answer = Fallback /\ api_ret.sources = <<>>)
            /\ (~model \/ ~index \/ api_arg.fails) => results = <<>>

\* The index matched more than five vectors: five results came back and the
\* answer carries three sources
C20_Witness ==
    /\ api_pc = "do_GET"
    /\ api_ret.status = 200
    /\ Len(api_ret.results) = 5
    /\ Len(api_ret.sources) = 3
    /\ api_ret.sources[3].title = <<"t", "3">>
    /\ api_ret.answer = <<"c", "1">>

\* C16 as claimed: every file written whole holds articles with the fields
\* title, url, categories, content, related_urls and crawled_at, so that the
\* ingester finds the body text and the URL of every persisted article and
\* does not fall back to its empty defaults.
C16_IngesterFindsBodyAndUrl ==
    \A f \in files :
        f.complete =>
            /\ {"title", "url", "categories", "content", "related_urls", "crawled_at"}
                  \subseteq DOMAIN f.data
            /\ ProcessSingleArticle(f.data).defaulted = {}

\* C17: the step that pops a URL already visited removes that one entry and
\* nothing else: no request is made, visited_urls, article_count, the files
\* and the rest of to_visit stay as they are, and the loop goes on.
C17_SkipOnlyPops ==
    [][(pc = "running" /\ LoopCondition(to_visit, article_count, max_articles)
          /\ Head(to_visit) \in visited_urls) =>
            /\ to_visit' = Tail(to_visit)
            /\ fetch_log' = fetch_log
            /\ visited_urls' = visited_urls
            /\ article_count' = article_count
            /\ save_log' = save_log
            /\ files' = files
            /\ pc' = pc]_vars

\* The first page linked twice to a second page; the request for the second
\* page failed, and its other entry was popped without a request
C17_Witness ==
    /\ Len(fetch_log) = 2
    /\ fetch_log[1].ok
    /\ ~fetch_log[2].ok
    /\ Len(new_links) = 2
    /\ new_links[1] = new_links[2]
    /\ fetch_log[2].url = new_links[1]
    /\ fetch_log[1].url # new_links[1]
    /\ to_visit = <<>>

\* C23: in one run the file names handed to save_article_data are pairwise
\* distinct, also for articles with the same title and after a failed write,
\* so every article written whole stays on disk and no file of the run is
\* written twice.
C23_DistinctFilenames ==
    /\ \A i, j \in DOMAIN save_log :
          save_log[i].filename = save_log[j].filename => i = j
    /\ \A i \in DOMAIN save_log : save_log[i].ok => Persisted(i)
    /\ Cardinality(files) <= Len(save_log)
    /\ Cardinality({f.name : f \in files}) = Cardinality(files)

\* Two pages with the same title were stored; the first write failed, the
\* second succeeded under another name
C23_Witness ==
    /\ Len(save_log) = 2
    /\ save_log[1].data.title = save_log[2].data.title
    /\ ~save_log[1].ok
    /\ save_log[2].ok
    /\ save_log[1].filename # save_log[2].filename
    /\ Persisted(2)

\* The place of a URL in a list that holds it
Pos(url, list) == CHOOSE i \in DOMAIN list : list[i] = url

\* C21: the URLs are fetched in the order in which they were first put into
\* to_visit: every fetched URL was put there, and of two fetched URLs the one
\* put there first is fetched first.
C21_FifoFetchOrder ==
    /\ \A i \in DOMAIN fetch_log : InSeq(fetch_log[i].url, enqueued)
    /\ \A i, j \in DOMAIN enqueued : enqueued[i] = enqueued[j] => i = j
    /\ \A i, j \in DOMAIN fetch_log :
          Pos(fetch_log[i].url, enqueued) < Pos(fetch_log[j].url, enqueued) => i < j

\* The seed's page linked to /he/2 and then to /he/1; the three URLs were
\* fetched in that order, /he/2 before /he/1
C21_Witness ==
    /\ Len(fetch_log) = 3
    /\ Len(enqueued) = 3
    /\ enqueued[2].name = 2
    /\ enqueued[3].name = 1
    /\ fetch_log[1].url = start_url
    /\ fetch_log[2].url = enqueued[2]
    /\ fetch_log[3].url = enqueued[3]

\* C22 as claimed: crawl_category_page returns for every category page, also
\* when the 'next page' links form a cycle: no exception leaves it, and it
\* requests each page of the chain once.
C22_CategoryCrawlReturns ==
    /\ cat_pc # "raised"
    /\ \A i, j \in DOMAIN cat_requests : cat_requests[i] = cat_requests[j] => i = j

====
